---- MODULE Spec2Model ----
(***************************************************************************)
(* examples/clocksetup-with-itm-debug.rs: the startup sequence `main`.     *)
(* One action per statement of main; the hardware the statements touch     *)
(* (peripheral singletons, RCC clock tree, TPIU registers, semihosting and *)
(* ITM channels) is the state.                                             *)
(***************************************************************************)
EXTENDS Integers, Sequences, FiniteSets

\* ---------------------------------------------------------------- bounds
\* TPIU_ACPR values the hardware may hold at entry: 0 .. MaxAcpr.
MaxAcpr == 16
\* TPIU_SPPR values the hardware may hold at entry: 0 .. MaxSppr (bits above
\* the 2-bit mode field included).
MaxSppr == 7
\* How far (in Hz) the synthesized sysclk of an external-oscillator build may
\* lie from the requested one.
MaxDeviation == 1
\* Iterations of the trailing nop loop that are told apart.
MaxNops == 2

\* ------------------------------------------------------- program constants
\* line 100: 16.mhz()
DESIRED_MHZ == 16
\* line 130: 8.mhz()
HSE8_MHZ == 8
\* line 135: 25.mhz()
HSE25_MHZ == 25
\* line 116: the internal RC oscillator, 16 MHz nominal
HSI_MHZ == 16

\* A local that has not been assigned yet.
Uninit == 0 - 1

\* MegaHertz -> Hertz (Into<Hertz> of the value passed to sysclk()).
Hz(mhz) == mhz * 1000000

Features == {"internal", "clocks_example_ext_osc8", "clocks_example_ext_osc25"}

External(f) == f # "internal"

VARIABLES
    feature,            \* the build's oscillator choice (cfg features)
    hseStarts,          \* environment: an attached external oscillator starts
    preTaken,           \* environment: singletons already taken at entry
    taken,              \* peripheral singletons currently taken: "dp", "cp"
    acprReg,            \* TPIU_ACPR
    spprReg,            \* TPIU_SPPR
    clockTree,          \* RCC: [ref, sysclk]
    freezes,            \* number of clock-tree commits performed
    pc,                 \* position in main
    fault,              \* why main panicked, "none" while it has not
    desired_core_freq,  \* local, MHz
    HSE_FREQ,           \* local/const of the external builds, MHz
    clocks,             \* local: clocks.sysclk().0, Hz
    acpr,               \* local
    sppr,               \* local
    out,                \* lines written by dbgln! (semihosting), in order
    itm,                \* lines written to ITM stimulus port 0, in order
    reads,              \* TPIU registers read so far: "acpr", "sppr"
    nops                \* iterations of the nop loop executed

vars == <<feature, hseStarts, preTaken, taken, acprReg, spprReg, clockTree,
          freezes, pc, fault, desired_core_freq, HSE_FREQ, clocks, acpr, sppr,
          out, itm, reads, nops>>

env == <<feature, hseStarts, preTaken>>
locals == <<desired_core_freq, HSE_FREQ, clocks, acpr, sppr>>
tpiu == <<acprReg, spprReg>>
rccHw == <<clockTree, freezes>>
chan == <<out, itm>>

AcprValues == 0 .. MaxAcpr
SpprValues == 0 .. MaxSppr

\* The clock tree out of reset: HSI selected.
ResetClockTree == [ref |-> "HSI", sysclk |-> Hz(HSI_MHZ)]

Init ==
    /\ feature \in Features
    /\ hseStarts \in BOOLEAN
    /\ preTaken \in SUBSET {"dp", "cp"}
    /\ taken = preTaken
    /\ acprReg \in AcprValues
    /\ spprReg \in SpprValues
    /\ clockTree = ResetClockTree
    /\ freezes = 0
    /\ pc = "start"
    /\ fault = "none"
    /\ desired_core_freq = Uninit
    /\ HSE_FREQ = Uninit
    /\ clocks = Uninit
    /\ acpr = Uninit
    /\ sppr = Uninit
    /\ out = <<>>
    /\ itm = <<>>
    /\ reads = {}
    /\ nops = 0

\* ---------------------------------------------------------------- helpers
\* dbgln!(..) -> hprintln!(..): one line on the semihosting channel.
Line(k, v) == [k |-> k, v |-> v]

\* Faulty variant: dbgln! expands to nothing.
EmitNothing(k, v) == out' = out

Emit(k, v) == out' = Append(out, Line(k, v))

\* panic: control leaves main for the panic handler.
Panic(why) == pc' = "panicked" /\ fault' = why

\* a & b on naturals, bit by bit.
RECURSIVE BitAnd(_, _)
BitAnd(a, b) ==
    IF a = 0 \/ b = 0 THEN 0
    ELSE (IF a % 2 = 1 /\ b % 2 = 1 THEN 1 ELSE 0) + 2 * BitAnd(a \div 2, b \div 2)

\* Faulty variant: the mask loses its high bit: sppr & 0b01.
ModeFieldOneBit(v) == BitAnd(v, 1)

\* line 177: the scrutinee, sppr & 0b11.
ModeField(v) == BitAnd(v, 3)

\* Faulty variant: the reserved value falls through to the last defined arm.
DecodeFallthrough(v) ==
    CASE ModeField(v) = 0 -> "parallel"
      [] ModeField(v) = 1 -> "manchester"
      [] OTHER -> "nrz_uart"

\* lines 177-182: the match arms, by the line each prints.
DecodeMode(v) ==
    CASE ModeField(v) = 0 -> "parallel"
      [] ModeField(v) = 1 -> "manchester"
      [] ModeField(v) = 2 -> "nrz_uart"
      [] OTHER -> "reserved"

\* Faulty variant: the division is unchecked.
DivUnchecked(d) == FALSE

\* lines 170, 186: u32 `/` panics on a zero divisor before dividing.
DivFaults(d) == d = 0

\* Faulty variant: the quotient is rounded to nearest.
BaudRounded(c, d) == IF d = 0 THEN 0 ELSE (c + d \div 2) \div d

\* lines 170, 186: clocks.sysclk().0 / acpr, the u32 divide itself
\* (truncating; the ARMv7-M UDIV yields 0 for a zero divisor when it is
\* executed without the check).
Baud(c, d) == IF d = 0 THEN 0 ELSE c \div d

\* Faulty variant: the singleton is handed out again (steal() for take()).
TakeSteals(p) == FALSE

\* lines 101, 102: take() yields None once the singleton has been taken, and
\* unwrap() panics on None.
TakeFails(p) == p \in taken

\* Faulty variant: panic!() is gone and control falls into the loop.
FallIntoLoop == "loop"

\* line 197: panic!() diverges; the loop after it is not entered.
AfterPanicBang == "panicked"

\* Faulty variant: a read-to-clear register.
ReadClears(v) == 0

\* lines 165, 175: what a register holds after .read().
AfterRead(v) == v

\* lines 130, 135: the rated frequency of the build's external oscillator.
HseOf(f) == IF f = "clocks_example_ext_osc8" THEN HSE8_MHZ ELSE HSE25_MHZ

\* freeze(): the oscillator the clock tree is switched to must be running;
\* the internal one always is (line 116), an external one may not start
\* (line 148).
OscStarts == ~External(feature) \/ hseStarts

\* freeze(): the sysclk values PLL synthesis may settle on for a target.
SysclkOutcomes(f, mhz) ==
    IF External(f) THEN (Hz(mhz) - MaxDeviation) .. (Hz(mhz) + MaxDeviation)
    ELSE {Hz(mhz)}

\* ---------------------------------------------------------------- actions
\* line 100
Start ==
    /\ pc = "start"
    /\ desired_core_freq' = DESIRED_MHZ
    /\ pc' = "take_dp"
    /\ UNCHANGED <<env, taken, tpiu, rccHw, fault, HSE_FREQ, clocks, acpr, sppr,
                   chan, reads, nops>>

\* lines 101, 102: Peripherals::take().unwrap()
Take(p, from, to) ==
    /\ pc = from
    /\ IF TakeFails(p)
       THEN Panic("unwrap_none") /\ UNCHANGED taken
       ELSE taken' = taken \cup {p} /\ pc' = to /\ UNCHANGED fault
    /\ UNCHANGED <<env, tpiu, rccHw, locals, chan, reads, nops>>

\* line 101
TakeDp == Take("dp", "take_dp", "take_cp")

\* line 102
TakeCp == Take("cp", "take_cp", "constrain")

\* line 104: dp.RCC.constrain() only wraps the register block.
Constrain ==
    /\ pc = "constrain"
    /\ pc' = "hello"
    /\ UNCHANGED <<env, taken, tpiu, rccHw, fault, locals, chan, reads, nops>>

\* a dbgln! statement
Say(from, to, k, v) ==
    /\ pc = from
    /\ Emit(k, v)
    /\ pc' = to
    /\ UNCHANGED <<env, taken, tpiu, rccHw, fault, locals, itm, reads, nops>>

\* line 107
Hello == Say("hello", "slow", "hello", 0)

\* line 108
Slow == Say("slow", "try", "slow", 0)

\* line 110; the cfg attributes pick what follows.
Try ==
    Say("try", IF External(feature) THEN "hse_freq" ELSE "freeze",
        "desired", desired_core_freq)

\* lines 127-135
HseFreq ==
    /\ pc = "hse_freq"
    /\ HSE_FREQ' = HseOf(feature)
    /\ pc' = "warn_expect"
    /\ UNCHANGED <<env, taken, tpiu, rccHw, fault, desired_core_freq, clocks,
                   acpr, sppr, chan, reads, nops>>

\* lines 142-144
WarnExpect == Say("warn_expect", "warn_faster", "hse_expect", HSE_FREQ)

\* lines 145-147
WarnFaster == Say("warn_faster", "warn_stop", "hse_faster", HSE_FREQ)

\* line 148
WarnStop == Say("warn_stop", "warn_reset", "hse_stop", 0)

\* line 149
WarnReset == Say("warn_reset", "freeze", "hse_reset", 0)

\* Faulty variant: no `let clocks = ...freeze()` survives the cfg attributes.
FreezeSkipped ==
    /\ pc = "freeze"
    /\ pc' = "read_acpr"
    /\ UNCHANGED <<env, taken, tpiu, rccHw, fault, locals, chan, reads, nops>>

\* line 121, lines 156-160: the commit returns with the tree switched.
Freeze ==
    /\ pc = "freeze"
    /\ OscStarts
    /\ \E clk \in SysclkOutcomes(feature, desired_core_freq) :
          /\ clockTree' = [ref |-> IF External(feature) THEN "HSE" ELSE "HSI",
                           sysclk |-> clk]
          /\ clocks' = clk
    /\ freezes' = freezes + 1
    /\ pc' = "read_acpr"
    /\ UNCHANGED <<env, taken, tpiu, fault, desired_core_freq, HSE_FREQ, acpr,
                   sppr, chan, reads, nops>>

\* lines 156-160 with no running external oscillator: freeze() polls for it
\* and does not return (line 148).
FreezeHang ==
    /\ pc = "freeze"
    /\ ~OscStarts
    /\ UNCHANGED vars

\* line 165
ReadAcpr ==
    /\ pc = "read_acpr"
    /\ acpr' = acprReg
    /\ acprReg' = AfterRead(acprReg)
    /\ reads' = reads \cup {"acpr"}
    /\ pc' = "print_acpr"
    /\ UNCHANGED <<env, taken, spprReg, rccHw, fault, desired_core_freq,
                   HSE_FREQ, clocks, sppr, chan, nops>>

\* Faulty variant: the raw divisor is not printed.
PrintAcprSkipped ==
    /\ pc = "print_acpr"
    /\ pc' = "print_baud"
    /\ UNCHANGED <<env, taken, tpiu, rccHw, fault, locals, chan, reads, nops>>

\* line 167
PrintAcpr == Say("print_acpr", "print_baud", "acpr", acpr)

\* lines 168-171 and 184-187: the argument is evaluated, then printed.
PrintBaud(from, to) ==
    /\ pc = from
    /\ IF DivFaults(acpr)
       THEN Panic("div_zero") /\ UNCHANGED out
       ELSE Emit("baud", Baud(clocks, acpr)) /\ pc' = to /\ UNCHANGED fault
    /\ UNCHANGED <<env, taken, tpiu, rccHw, locals, itm, reads, nops>>

\* lines 168-171
PrintBaud1 == PrintBaud("print_baud", "read_sppr")

\* line 175
ReadSppr ==
    /\ pc = "read_sppr"
    /\ sppr' = spprReg
    /\ spprReg' = AfterRead(spprReg)
    /\ reads' = reads \cup {"sppr"}
    /\ pc' = "match_sppr"
    /\ UNCHANGED <<env, taken, acprReg, rccHw, fault, desired_core_freq,
                   HSE_FREQ, clocks, acpr, chan, nops>>

\* lines 177-182
MatchSppr == Say("match_sppr", "print_baud2", "mode", DecodeMode(sppr))

\* lines 184-187
PrintBaud2 == PrintBaud("print_baud2", "stim")

\* line 192: borrow of cp.ITM.stim[0]
Stim ==
    /\ pc = "stim"
    /\ pc' = "itm1"
    /\ UNCHANGED <<env, taken, tpiu, rccHw, fault, locals, chan, reads, nops>>

\* an iprintln! statement
ItmSay(from, to, msg) ==
    /\ pc = from
    /\ itm' = Append(itm, msg)
    /\ pc' = to
    /\ UNCHANGED <<env, taken, tpiu, rccHw, fault, locals, out, reads, nops>>

\* line 194
Itm1 == ItmSay("itm1", "itm2", "Hello, ITM!")

\* line 195
Itm2 == ItmSay("itm2", "itm3", "Sometimes the best thing to do is to panic!().")

\* line 196
Itm3 == ItmSay("itm3", "panic", "This is one of those times...")

\* line 197
PanicBang ==
    /\ pc = "panic"
    /\ pc' = AfterPanicBang
    /\ fault' = "explicit"
    /\ UNCHANGED <<env, taken, tpiu, rccHw, locals, chan, reads, nops>>

\* After the last statement: the panic handler holds the core, or (lines
\* 198-200) the nop loop spins.
Halt ==
    /\ pc \in {"panicked", "loop"}
    /\ nops' = IF pc = "loop" /\ nops < MaxNops THEN nops + 1 ELSE nops
    /\ UNCHANGED <<env, taken, tpiu, rccHw, pc, fault, locals, chan, reads>>

Next ==
    \/ Start \/ TakeDp \/ TakeCp \/ Constrain \/ Hello \/ Slow \/ Try
    \/ HseFreq \/ WarnExpect \/ WarnFaster \/ WarnStop \/ WarnReset
    \/ Freeze \/ FreezeHang
    \/ ReadAcpr \/ PrintAcpr \/ PrintBaud1 \/ ReadSppr \/ MatchSppr
    \/ PrintBaud2 \/ Stim \/ Itm1 \/ Itm2 \/ Itm3 \/ PanicBang \/ Halt

Spec == Init /\ [][Next]_vars

\* One thread of control: main keeps executing while it has a next statement.
FairSpec == Spec /\ WF_vars(Next)

\* ------------------------------------------------------------- properties
\* Whether a line of kind k is on the semihosting channel.
Has(k) == \E i \in 1 .. Len(out) : out[i].k = k

\* The values carried by the lines of kind k.
Vals(k) == {out[i].v : i \in {j \in 1 .. Len(out) : out[j].k = k}}

\* The mode each 2-bit field value stands for (index: field value + 1).
ModeTable == <<"parallel", "manchester", "nrz_uart", "reserved">>

\* main has stopped in the panic handler.
Terminated == pc = "panicked"

\* Positions of main after the second baud report.
PastConfigurator == {"stim", "itm1", "itm2", "itm3", "panic", "panicked", "loop"}

\* The three stimulus-port messages, in order.
ItmMessages ==
    <<"Hello, ITM!", "Sometimes the best thing to do is to panic!().",
      "This is one of those times...">>

\* C1: with TPIU_ACPR = 0 no baud value is ever on the channel, and once the
\* zero divisor has been read main gets no further than the first baud
\* statement, where it ends in the arithmetic fault.
C1_ZeroDivisorFaults ==
    /\ acprReg = 0 => ~Has("baud")
    /\ acpr = 0 =>
          /\ pc \in {"print_acpr", "print_baud", "panicked"}
          /\ pc = "panicked" => fault = "div_zero"
    /\ fault = "div_zero" => acpr = 0 /\ "sppr" \notin reads

C1_Witness ==
    /\ acprReg = 0
    /\ pc = "panicked"
    /\ fault = "div_zero"
    /\ Vals("acpr") = {0}
    /\ clocks # Hz(desired_core_freq)

\* C2: every mode line reported is the table entry of the low 2 bits of
\* TPIU_SPPR, whatever the bits above them; past the match exactly one mode
\* has been reported; the reserved entry differs from the defined three.
C2_DecodeTotal ==
    /\ \A m \in Vals("mode") : m = ModeTable[(spprReg % 4) + 1]
    /\ pc \in {"print_baud2"} \cup PastConfigurator /\ fault # "div_zero"
          /\ fault # "unwrap_none"
          => Cardinality(Vals("mode")) = 1
    /\ \A i \in 1 .. 3 : ModeTable[4] # ModeTable[i]

C2_Witness ==
    /\ spprReg = 7
    /\ Vals("mode") = {"reserved"}

\* C3: every baud value reported is the truncated quotient of the sysclk the
\* clock tree runs at after the commit by the non-zero divisor; 16 MHz by 16
\* is 1 MHz.
C3_BaudIsTruncatedQuotient ==
    \A i \in 1 .. Len(out) :
        out[i].k = "baud" =>
            /\ acprReg > 0
            /\ freezes = 1
            /\ out[i].v * acprReg <= clockTree.sysclk
            /\ clockTree.sysclk < (out[i].v + 1) * acprReg
            /\ (clockTree.sysclk = 16000000 /\ acprReg = 16) => out[i].v = 1000000

C3_Witness ==
    /\ acprReg > 1
    /\ clockTree.sysclk # Hz(desired_core_freq)
    /\ clockTree.sysclk % acprReg # 0
    /\ 2 * (clockTree.sysclk % acprReg) >= acprReg
    /\ Has("baud")

\* C4: with a singleton already taken at entry, main ends in the unwrap
\* fault at the take of that singleton: the clock tree is never committed
\* and no TPIU register is read.
C4_TakenHandleIsFatal ==
    /\ "dp" \in preTaken => pc \in {"start", "take_dp", "panicked"}
    /\ "cp" \in preTaken => pc \in {"start", "take_dp", "take_cp", "panicked"}
    /\ preTaken # {} =>
          /\ freezes = 0
          /\ clockTree = ResetClockTree
          /\ clocks = Uninit
          /\ reads = {}
          /\ pc = "panicked" => fault = "unwrap_none"

C4_Witness ==
    /\ preTaken = {"cp"}
    /\ "dp" \in taken
    /\ pc = "panicked"
    /\ fault = "unwrap_none"

DiagnosticsComplete ==
    /\ Len(SelectSeq(out, LAMBDA l : l.k = "baud")) = 2
    /\ Len(SelectSeq(out, LAMBDA l : l.k = "mode")) = 1
    /\ itm = ItmMessages

C7_TpiuReadOnly == [][acprReg' = acprReg /\ spprReg' = spprReg]_vars

C7_Witness ==
    /\ reads = {"acpr", "sppr"}
    /\ acprReg # 0
    /\ spprReg # 0
    /\ acpr = acprReg
    /\ sppr = spprReg
    /\ Terminated

C9_ModeReportedForEveryDivisor ==
    Terminated /\ fault # "unwrap_none" => "sppr" \in reads /\ Has("mode")

\* C9 amended: for every achieved clock and every non-zero divisor the mode
\* register is read and the mode reported is that of its 2-bit field alone;
\* with a zero divisor the run ends before the mode register is read and no
\* mode is reported.
C9_ModeReportedForNonZeroDivisor ==
    /\ Terminated /\ fault # "unwrap_none" /\ acprReg # 0 =>
          /\ "sppr" \in reads
          /\ Vals("mode") = {ModeTable[(spprReg % 4) + 1]}
    /\ Terminated /\ acprReg = 0 => "sppr" \notin reads /\ ~Has("mode")

C9_Witness ==
    /\ Terminated
    /\ fault = "explicit"
    /\ clockTree.sysclk # Hz(desired_core_freq)
    /\ acprReg = 3
    /\ spprReg = 6
    /\ Vals("mode") = {"nrz_uart"}

\* C10 as stated: past the configurator the baud rate, the mode and the raw
\* values of both registers have been emitted.
C10_BothRawValuesEmitted ==
    pc \in PastConfigurator /\ fault # "div_zero" /\ fault # "unwrap_none" =>
        /\ Has("baud") /\ Has("mode")
        /\ acpr \in Vals("acpr")
        /\ sppr \in Vals("sppr")

\* C10 amended: past the configurator the baud rate, the mode and the raw
\* value of the divisor register have been emitted; the mode register is
\* reported only decoded.
C10_DerivedValuesEmitted ==
    /\ pc \in PastConfigurator /\ fault # "div_zero" /\ fault # "unwrap_none" =>
          /\ Vals("baud") = {Baud(clockTree.sysclk, acprReg)}
          /\ Vals("mode") = {ModeTable[(spprReg % 4) + 1]}
          /\ Vals("acpr") = {acprReg}
    /\ \A i \in 1 .. Len(out) :
          out[i].k \in {"hello", "slow", "desired", "hse_expect", "hse_faster",
                        "hse_stop", "hse_reset", "acpr", "baud", "mode"}

C10_Witness ==
    /\ pc = "stim"
    /\ spprReg = 5
    /\ acprReg = 7
    /\ Len(out) = 7

====
